---- MODULE Spec2Model ----
(***************************************************************************)
(* Reputation scoring engine of the AIP registry reference server:         *)
(* services/reputation.ts (calculateReputationScore) and the routes that   *)
(* trigger it (routes/reputation.ts, routes/agents.ts), over the Prisma    *)
(* tables agents, metrics, reviews and reputation_scores.                  *)
(*                                                                         *)
(* Numbers are exact rationals <<n, d>> in lowest terms with d > 0.        *)
(* An optional value (a nullable column, a findUnique result) is a         *)
(* sequence of length 0 (null) or 1 (the value).                           *)
(***************************************************************************)
EXTENDS Integers, Sequences, FiniteSets, TLC

VARIABLES agents, names, metrics, reviews, reputationScores, agentCache,
          apiKeys, reqs, nextId, now

vars == <<agents, names, metrics, reviews, reputationScores, agentCache,
          apiKeys, reqs, nextId, now>>

----------------------------------------------------------------------------
(* Bounds of the model *)

\* number of HTTP requests one behaviour issues
MaxReqs == 2

\* largest number of reviews an agent starts with in SpecCalc
MaxInitReviews == 5

\* largest number of reviews an agent starts with in SpecReviews
MaxManyReviews == 10

\* how far the clock runs in SpecKeys
MaxNow == 3

----------------------------------------------------------------------------
(* Exact arithmetic *)

RECURSIVE GCD(_, _)
GCD(a, b) == IF b = 0 THEN a ELSE GCD(b, a % b)

Abs(x) == IF x < 0 THEN -x ELSE x

\* the rational n/d (d # 0) in lowest terms
Rat(n, d) ==
    LET g == GCD(Abs(n), Abs(d))
        s == IF d < 0 THEN -1 ELSE 1
    IN  <<(s * n) \div g, (s * d) \div g>>

Num(k) == <<k, 1>>
Zero == Num(0)
One == Num(1)
Half == Rat(1, 2)

RAdd(x, y) == Rat(x[1] * y[2] + y[1] * x[2], x[2] * y[2])
RSub(x, y) == Rat(x[1] * y[2] - y[1] * x[2], x[2] * y[2])
RMul(x, y) == Rat(x[1] * y[1], x[2] * y[2])
RDiv(x, y) == Rat(x[1] * y[2], x[2] * y[1])
RLe(x, y) == x[1] * y[2] <= y[1] * x[2]
RLt(x, y) == x[1] * y[2] < y[1] * x[2]
RMin(x, y) == IF RLe(x, y) THEN x ELSE y
RMax(x, y) == IF RLe(x, y) THEN y ELSE x
InUnit(x) == RLe(Zero, x) /\ RLe(x, One)

----------------------------------------------------------------------------
(* Optional values and JavaScript's || *)

None == <<>>
Some(x) == <<x>>
IsSome(o) == o # <<>>
Val(o) == o[1]

\* `o || dflt` on an optional number: null, undefined and 0 are falsy
OrDefault(o, dflt) == IF o = None \/ Val(o)[1] = 0 THEN dflt ELSE Val(o)

----------------------------------------------------------------------------
(* Score calculator: the body of calculateReputationScore between the read *)
(* of the agent and the upsert                                             *)

\* mutant: the last segment without its Math.max(0, ...) floor
ResponseComponent_NoFloor(responseTime) ==
    IF RLe(responseTime, Num(500))
    THEN Rat(2, 10)
    ELSE IF RLe(responseTime, Num(2000))
         THEN RMul(Rat(2, 10),
                   RSub(One, RDiv(RSub(responseTime, Num(500)), Num(1500))))
         ELSE RMul(Rat(2, 10),
                   RSub(One, RDiv(RSub(responseTime, Num(2000)), Num(3000))))

\* responseComponent, from the defaulted responseTime
ResponseComponent(responseTime) ==
    IF RLe(responseTime, Num(500))
    THEN Rat(2, 10)
    ELSE IF RLe(responseTime, Num(2000))
         THEN RMul(Rat(2, 10),
                   RSub(One, RDiv(RSub(responseTime, Num(500)), Num(1500))))
         ELSE RMul(Rat(2, 10),
                   RMax(Zero,
                        RSub(One, RDiv(RSub(responseTime, Num(2000)), Num(3000)))))

\* the locals of the `if (agent.metrics)` block
PerformanceLocals(m) ==
    LET successRate == OrDefault(m.successRate, Zero)
        uptime == OrDefault(m.uptime30d, Zero)
        responseTime == OrDefault(m.avgResponseTimeMs, Num(1000))
        successComponent == RMul(successRate, Rat(5, 10))
        uptimeComponent == RMul(uptime, Rat(3, 10))
        responseComponent == ResponseComponent(responseTime)
    IN  [responseTime |-> responseTime,
         responseComponent |-> responseComponent,
         performanceScore |->
             RMin(One, RAdd(RAdd(successComponent, uptimeComponent),
                            responseComponent))]

PerformanceScore(om) ==
    IF IsSome(om) THEN PerformanceLocals(Val(om)).performanceScore ELSE Half

\* mutant: reliability defaults to 0 like the uptime of the metrics block
ReliabilityScore_ZeroDefault(om) ==
    IF IsSome(om) THEN OrDefault(Val(om).uptime30d, Zero) ELSE Zero

\* agent.metrics?.uptime30d || 0.5
ReliabilityScore(om) ==
    IF IsSome(om) THEN OrDefault(Val(om).uptime30d, Half) ELSE Half

\* mutant: the NEUTRAL filter never matches
CountRating_NeutralDropped(revs, rating) ==
    Cardinality({r \in revs : r.rating = rating /\ rating # "NEUTRAL"})

\* agent.reviews.filter((r) => r.rating === rating).length
CountRating(revs, rating) == Cardinality({r \in revs : r.rating = rating})

\* mutant: the confidence factor for fewer than 5 reviews is left out
CommunityScore_NoDampening(revs) ==
    LET totalReviews == Cardinality(revs)
        positiveReviews == CountRating(revs, "POSITIVE")
        negativeReviews == CountRating(revs, "NEGATIVE")
        reviewScore == Rat(positiveReviews - negativeReviews, totalReviews)
    IN  IF totalReviews > 0
        THEN RMax(Zero, RMin(One, RDiv(RAdd(reviewScore, One), Num(2))))
        ELSE Half

\* mutant: full confidence is reached at 10 reviews, not 5
CommunityScore_ConfidenceOfTen(revs) ==
    LET totalReviews == Cardinality(revs)
        positiveReviews == CountRating(revs, "POSITIVE")
        negativeReviews == CountRating(revs, "NEGATIVE")
        reviewScore == Rat(positiveReviews - negativeReviews, totalReviews)
        normalized == RMax(Zero, RMin(One, RDiv(RAdd(reviewScore, One), Num(2))))
    IN  IF totalReviews > 0
        THEN IF totalReviews < 10
             THEN RAdd(Half, RMul(RSub(normalized, Half), Rat(totalReviews, 10)))
             ELSE normalized
        ELSE Half

CommunityScore(revs) ==
    LET totalReviews == Cardinality(revs)
        positiveReviews == CountRating(revs, "POSITIVE")
        negativeReviews == CountRating(revs, "NEGATIVE")
        reviewScore == Rat(positiveReviews - negativeReviews, totalReviews)
        normalized == RMax(Zero, RMin(One, RDiv(RAdd(reviewScore, One), Num(2))))
    IN  IF totalReviews > 0
        THEN IF totalReviews < 5
             THEN RAdd(Half, RMul(RSub(normalized, Half), Rat(totalReviews, 5)))
             ELSE normalized
        ELSE Half

\* mutant: the three components weigh the same
OverallScore_EqualWeights(performanceScore, reliabilityScore, communityScore) ==
    RDiv(RAdd(RAdd(performanceScore, reliabilityScore), communityScore),
         Num(3))

OverallScore(performanceScore, reliabilityScore, communityScore) ==
    RAdd(RAdd(RMul(performanceScore, Rat(4, 10)),
              RMul(reliabilityScore, Rat(3, 10))),
         RMul(communityScore, Rat(3, 10)))

\* mutant: the review counts are added onto the stored record
ScoreTuple_Incremental(agent, t) ==
    LET performanceScore == PerformanceScore(agent.metrics)
        reliabilityScore == ReliabilityScore(agent.metrics)
        communityScore == CommunityScore(agent.reviews)
        prev == IF IsSome(agent.reputationScore)
                THEN Val(agent.reputationScore).totalReviews ELSE 0
    IN  [overallScore |->
             OverallScore(performanceScore, reliabilityScore, communityScore),
         performanceScore |-> performanceScore,
         reliabilityScore |-> reliabilityScore,
         communityScore |-> communityScore,
         totalReviews |-> prev + Cardinality(agent.reviews),
         positiveReviews |-> CountRating(agent.reviews, "POSITIVE"),
         neutralReviews |-> CountRating(agent.reviews, "NEUTRAL"),
         negativeReviews |-> CountRating(agent.reviews, "NEGATIVE"),
         lastCalculatedAt |-> t]

\* the create/update payload of the upsert, from the agent row read with
\* its metrics, reviews and reputationScore; t is `new Date()`
ScoreTuple(agent, t) ==
    LET performanceScore == PerformanceScore(agent.metrics)
        reliabilityScore == ReliabilityScore(agent.metrics)
        communityScore == CommunityScore(agent.reviews)
    IN  [overallScore |->
             OverallScore(performanceScore, reliabilityScore, communityScore),
         performanceScore |-> performanceScore,
         reliabilityScore |-> reliabilityScore,
         communityScore |-> communityScore,
         totalReviews |-> Cardinality(agent.reviews),
         positiveReviews |-> CountRating(agent.reviews, "POSITIVE"),
         neutralReviews |-> CountRating(agent.reviews, "NEUTRAL"),
         negativeReviews |-> CountRating(agent.reviews, "NEGATIVE"),
         lastCalculatedAt |-> t]

\* what one run of calculateReputationScore holds once the agent is read:
\* the row, the locals of the metrics block, the payload of the upsert
CalcLocals(agent, t) ==
    [agent |-> agent,
     perf |-> IF IsSome(agent.metrics)
              THEN Some(PerformanceLocals(Val(agent.metrics)))
              ELSE None,
     tuple |-> ScoreTuple(agent, t)]

----------------------------------------------------------------------------
(* Inputs *)

AgentIds == {"a1", "a2"}

\* the name every agent registered with
InitialName == "n1"

Ratings == {"POSITIVE", "NEUTRAL", "NEGATIVE"}

\* request bodies of POST /reputation/agents/:id/reviews: the rating sent
\* ("" when missing) and the length of the comment
ReviewBodies ==
    [rating : Ratings, commentLen : {0}]
        \cup {[rating |-> "", commentLen |-> 0],
              [rating |-> "FIVE_STARS", commentLen |-> 0],
              [rating |-> "POSITIVE", commentLen |-> 1001]}

\* mutant: the schema puts no limit on the comment
CreateReviewSchemaOk_NoCommentLimit(body) == body.rating \in Ratings

\* CreateReviewSchema.parse succeeds
CreateReviewSchemaOk(body) ==
    body.rating \in Ratings /\ body.commentLen <= 1000

Snapshot(sr, up, t) ==
    [successRate |-> sr, uptime30d |-> up, avgResponseTimeMs |-> t]

\* request bodies of POST /agents/:id/metrics (tasks_completed, which no
\* score reads, is left out)
MetricsBodies ==
    {Snapshot(Some(One), Some(One), Some(Num(300))),
     Snapshot(Some(Half), Some(Zero), None),
     Snapshot(Some(Rat(3, 2)), None, None)}

\* MetricsUpdateSchema.parse succeeds
MetricsUpdateSchemaOk(body) ==
    /\ IsSome(body.successRate) => InUnit(Val(body.successRate))
    /\ IsSome(body.uptime30d) => InUnit(Val(body.uptime30d))
    /\ IsSome(body.avgResponseTimeMs) =>
           /\ Val(body.avgResponseTimeMs)[2] = 1
           /\ Val(body.avgResponseTimeMs)[1] >= 0

----------------------------------------------------------------------------
(* State *)

Reqs == 1..MaxReqs

\* a request that has not arrived (`before` is history: the agent's reviews
\* that were persisted when an explicit recalculation arrived)
IdleReq ==
    [kind |-> "idle", agentId |-> "", review |-> None, data |-> None,
     pc |-> "idle", status |-> 0, result |-> None,
     cpc |-> "none", cres |-> "none", loc |-> None, before |-> {}]

ReviewsOf(a) == {rv \in reviews : rv.agentId = a}

\* a row of reputation_scores: the agent it belongs to and its score and
\* count columns
ScoreRow(a, tuple) == [agentId |-> a, score |-> tuple]

\* prisma.reputationScore.findUnique({ where: { agentId } }), for every
\* agent ID: the columns of the agent's row, None when it has none
scores ==
    [a \in AgentIds |->
        IF \E row \in reputationScores : row.agentId = a
        THEN Some((CHOOSE row \in reputationScores : row.agentId = a).score)
        ELSE None]

\* the table after prisma.reputationScore.upsert({ where: { agentId },
\* create, update }): the agent's row is written whole, inserted when the
\* agent had none
Upserted(a, tuple) ==
    {row \in reputationScores : row.agentId # a} \cup {ScoreRow(a, tuple)}

\* mutant: the reviews relation is not restricted to the agent
AgentRow_AllReviews(a) ==
    IF a \in agents
    THEN Some([metrics |-> metrics[a], reviews |-> reviews,
               reputationScore |-> scores[a]])
    ELSE None

\* prisma.agent.findUnique({ where: { id }, include: { metrics, reviews,
\* reputationScore } })
AgentRow(a) ==
    IF a \in agents
    THEN Some([metrics |-> metrics[a], reviews |-> ReviewsOf(a),
               reputationScore |-> scores[a]])
    ELSE None

Init ==
    /\ agents = AgentIds
    /\ names = [a \in AgentIds |-> InitialName]
    /\ agentCache = [a \in AgentIds |-> None]
    /\ apiKeys = {}
    /\ metrics = [a \in AgentIds |-> None]
    /\ reviews = {}
    /\ reputationScores = {}
    /\ reqs = [r \in Reqs |-> IdleReq]
    /\ nextId = 1
    /\ now = 1

\* request slots are taken in order
Arrives(r) ==
    /\ reqs[r].kind = "idle"
    /\ IF r = 1 THEN TRUE ELSE reqs[r - 1].kind # "idle"

Respond(req, status, result) ==
    [req EXCEPT !.pc = "done", !.status = status, !.result = result]

----------------------------------------------------------------------------
(* calculateReputationScore(agentId), run for request r *)

\* the findUnique resolves; the function returns when the agent is gone,
\* else computes the scores and issues the upsert
CalcRead(r) ==
    LET req == reqs[r]
        row == AgentRow(req.agentId)
    IN  /\ req.cpc = "read"
        /\ IF IsSome(row)
           THEN /\ reqs' = [reqs EXCEPT ![r] =
                       [req EXCEPT !.cpc = "upsert",
                                   !.loc = Some(CalcLocals(Val(row), now))]]
                /\ now' = now + 1
           ELSE /\ reqs' = [reqs EXCEPT ![r] =
                       [req EXCEPT !.cpc = "done", !.cres = "notfound"]]
                /\ now' = now
        /\ UNCHANGED <<agents, metrics, reviews, reputationScores, nextId,
                       names, agentCache, apiKeys>>

\* the findUnique rejects: caught, logged, the function returns
CalcReadFault(r) ==
    /\ reqs[r].cpc = "read"
    /\ reqs' = [reqs EXCEPT ![r].cpc = "done", ![r].cres = "fault"]
    /\ UNCHANGED <<agents, metrics, reviews, reputationScores, nextId, now,
                   names, agentCache, apiKeys>>

\* mutant: the write is a plain create instead of an upsert
CalcUpsert_Create(r) ==
    LET req == reqs[r]
    IN  /\ req.cpc = "upsert"
        /\ IF req.agentId \in agents
           THEN /\ reputationScores' =
                       reputationScores
                           \cup {ScoreRow(req.agentId, Val(req.loc).tuple)}
                /\ reqs' = [reqs EXCEPT ![r].cpc = "done", ![r].cres = "ok"]
           ELSE /\ reputationScores' = reputationScores
                /\ reqs' = [reqs EXCEPT ![r].cpc = "done", ![r].cres = "fault"]
        /\ UNCHANGED <<agents, metrics, reviews, nextId, now, names,
                       agentCache, apiKeys>>

\* the upsert commits (it rejects on the foreign key when the agent is gone)
\* mutant: reputation_scores has no foreign key to agents
CalcUpsert_NoForeignKey(r) ==
    LET req == reqs[r]
    IN  /\ req.cpc = "upsert"
        /\ reputationScores' = Upserted(req.agentId, Val(req.loc).tuple)
        /\ reqs' = [reqs EXCEPT ![r].cpc = "done", ![r].cres = "ok"]
        /\ UNCHANGED <<agents, metrics, reviews, nextId, now, names,
                       agentCache, apiKeys>>

\* mutant: the upsert has an empty update and keeps a record that exists
CalcUpsert_CreateOnly(r) ==
    LET req == reqs[r]
    IN  /\ req.cpc = "upsert"
        /\ IF req.agentId \in agents
           THEN /\ reputationScores' =
                       IF IsSome(scores[req.agentId])
                       THEN reputationScores
                       ELSE Upserted(req.agentId, Val(req.loc).tuple)
                /\ reqs' = [reqs EXCEPT ![r].cpc = "done", ![r].cres = "ok"]
           ELSE /\ reputationScores' = reputationScores
                /\ reqs' = [reqs EXCEPT ![r].cpc = "done", ![r].cres = "fault"]
        /\ UNCHANGED <<agents, metrics, reviews, nextId, now, names,
                       agentCache, apiKeys>>

CalcUpsert(r) ==
    LET req == reqs[r]
    IN  /\ req.cpc = "upsert"
        /\ IF req.agentId \in agents
           THEN /\ reputationScores' =
                       Upserted(req.agentId, Val(req.loc).tuple)
                /\ reqs' = [reqs EXCEPT ![r].cpc = "done", ![r].cres = "ok"]
           ELSE /\ reputationScores' = reputationScores
                /\ reqs' = [reqs EXCEPT ![r].cpc = "done", ![r].cres = "fault"]
        /\ UNCHANGED <<agents, metrics, reviews, nextId, now, names,
                       agentCache, apiKeys>>

\* mutant: a rejected upsert takes the triggering review back with it
CalcUpsertFault_RollsBack(r) ==
    /\ reqs[r].cpc = "upsert"
    /\ reqs' = [reqs EXCEPT ![r].cpc = "done", ![r].cres = "fault"]
    /\ reviews' = IF reqs[r].kind = "review"
                  THEN reviews \ {Val(reqs[r].result)}
                  ELSE reviews
    /\ UNCHANGED <<agents, metrics, reputationScores, nextId, now, names,
                   agentCache, apiKeys>>

\* mutant: the rejected upsert has already overwritten overallScore of the
\* stored record
CalcUpsertFault_PartialWrite(r) ==
    LET a == reqs[r].agentId
    IN  /\ reqs[r].cpc = "upsert"
        /\ reqs' = [reqs EXCEPT ![r].cpc = "done", ![r].cres = "fault"]
        /\ reputationScores' =
               IF a \in agents /\ IsSome(scores[a])
               THEN Upserted(a, [Val(scores[a]) EXCEPT !.overallScore =
                                    Val(reqs[r].loc).tuple.overallScore])
               ELSE reputationScores
        /\ UNCHANGED <<agents, metrics, reviews, nextId, now, names,
                       agentCache, apiKeys>>

\* the upsert rejects: caught, logged, the function returns
CalcUpsertFault(r) ==
    /\ reqs[r].cpc = "upsert"
    /\ reqs' = [reqs EXCEPT ![r].cpc = "done", ![r].cres = "fault"]
    /\ UNCHANGED <<agents, metrics, reviews, reputationScores, nextId, now,
                   names, agentCache, apiKeys>>

----------------------------------------------------------------------------
(* POST /reputation/agents/:id/reviews *)

\* mutant: the recalculation is dispatched when the request arrives, before
\* the review is created
PostReview_DispatchesEarly(r, a, body) ==
    /\ Arrives(r)
    /\ LET req == [IdleReq EXCEPT !.kind = "review", !.agentId = a,
                                  !.review = Some(body)]
       IN  reqs' = [reqs EXCEPT ![r] =
               IF ~CreateReviewSchemaOk(body) THEN Respond(req, 400, None)
               ELSE IF a \notin agents THEN Respond(req, 404, None)
               ELSE [req EXCEPT !.pc = "create", !.cpc = "read"]]
    /\ UNCHANGED <<agents, names, metrics, reviews, reputationScores,
                   agentCache, apiKeys, nextId, now>>

\* the request arrives: the body is parsed, the agent looked up
PostReview(r, a, body) ==
    /\ Arrives(r)
    /\ LET req == [IdleReq EXCEPT !.kind = "review", !.agentId = a,
                                  !.review = Some(body)]
       IN  reqs' = [reqs EXCEPT ![r] =
               IF ~CreateReviewSchemaOk(body) THEN Respond(req, 400, None)
               ELSE IF a \notin agents THEN Respond(req, 404, None)
               ELSE [req EXCEPT !.pc = "create"]]
    /\ UNCHANGED <<agents, metrics, reviews, reputationScores, nextId, now,
                   names, agentCache, apiKeys>>

\* mutant: the handler awaits the recalculation before it answers
ReviewCreate_Awaits(r) ==
    LET req == reqs[r]
        review == [id |-> nextId, agentId |-> req.agentId,
                   rating |-> Val(req.review).rating]
    IN  /\ req.kind = "review"
        /\ req.pc = "create"
        /\ IF req.agentId \in agents
           THEN /\ reviews' = reviews \cup {review}
                /\ nextId' = nextId + 1
                /\ reqs' = [reqs EXCEPT ![r] =
                       [req EXCEPT !.pc = "await_calc", !.cpc = "read",
                                   !.result = Some(review)]]
           ELSE /\ reqs' = [reqs EXCEPT ![r] = Respond(req, 500, None)]
                /\ UNCHANGED <<reviews, nextId>>
        /\ UNCHANGED <<agents, metrics, reputationScores, now, names,
                       agentCache, apiKeys>>

\* prisma.review.create commits (it rejects on the foreign key when the
\* agent is gone); the recalculation is dispatched, not awaited, and 201 sent
ReviewCreate(r) ==
    LET req == reqs[r]
        review == [id |-> nextId, agentId |-> req.agentId,
                   rating |-> Val(req.review).rating]
    IN  /\ req.kind = "review"
        /\ req.pc = "create"
        /\ IF req.agentId \in agents
           THEN /\ reviews' = reviews \cup {review}
                /\ nextId' = nextId + 1
                /\ reqs' = [reqs EXCEPT ![r] =
                       [Respond(req, 201, Some(review)) EXCEPT !.cpc = "read"]]
           ELSE /\ reqs' = [reqs EXCEPT ![r] = Respond(req, 500, None)]
                /\ UNCHANGED <<reviews, nextId>>
        /\ UNCHANGED <<agents, metrics, reputationScores, now, names,
                       agentCache, apiKeys>>

----------------------------------------------------------------------------
(* GET /reputation/agents/:id/score *)

\* the JSON body of the score response
ScoreBody(score) ==
    [overallScore |-> score.overallScore,
     performanceScore |-> score.performanceScore,
     reliabilityScore |-> score.reliabilityScore,
     communityScore |-> score.communityScore,
     totalReviews |-> score.totalReviews,
     breakdown |-> [positive |-> score.positiveReviews,
                    neutral |-> score.neutralReviews,
                    negative |-> score.negativeReviews],
     lastCalculatedAt |-> score.lastCalculatedAt]

\* the request arrives and the score is looked up: answered when stored,
\* else calculateReputationScore is awaited
GetScore(r, a) ==
    /\ Arrives(r)
    /\ LET req == [IdleReq EXCEPT !.kind = "score", !.agentId = a]
       IN  reqs' = [reqs EXCEPT ![r] =
               IF IsSome(scores[a])
               THEN Respond(req, 200, Some(ScoreBody(Val(scores[a]))))
               ELSE [req EXCEPT !.pc = "await_calc", !.cpc = "read"]]
    /\ UNCHANGED <<agents, metrics, reviews, reputationScores, nextId, now,
                   names, agentCache, apiKeys>>

\* calculateReputationScore has returned: the score is looked up again
GetScoreAfter(r) ==
    LET req == reqs[r]
        newScore == scores[req.agentId]
    IN  /\ req.kind = "score"
        /\ req.pc = "await_calc"
        /\ req.cpc = "done"
        /\ reqs' = [reqs EXCEPT ![r] =
               IF IsSome(newScore)
               THEN Respond(req, 200, Some(ScoreBody(Val(newScore))))
               ELSE Respond(req, 404, None)]
        /\ UNCHANGED <<agents, metrics, reviews, reputationScores, nextId,
                       now, names, agentCache, apiKeys>>

----------------------------------------------------------------------------
(* POST /reputation/agents/:id/recalculate *)

\* the `score` member of the recalculate response
RecalculateBody(score) ==
    [overall |-> score.overallScore,
     performance |-> score.performanceScore,
     reliability |-> score.reliabilityScore,
     community |-> score.communityScore]

\* mutant: the handler goes to the calculator without looking the agent up
PostRecalculate_NoAgentCheck(r, a) ==
    /\ Arrives(r)
    /\ LET req == [IdleReq EXCEPT !.kind = "recalculate", !.agentId = a]
       IN  reqs' = [reqs EXCEPT ![r] =
               [req EXCEPT !.pc = "await_calc", !.cpc = "read"]]
    /\ UNCHANGED <<agents, metrics, reviews, reputationScores, nextId, now,
                   names, agentCache, apiKeys>>

\* the request arrives and the agent is looked up
PostRecalculate(r, a) ==
    /\ Arrives(r)
    /\ LET req == [IdleReq EXCEPT !.kind = "recalculate", !.agentId = a]
       IN  reqs' = [reqs EXCEPT ![r] =
               IF a \notin agents THEN Respond(req, 404, None)
               ELSE [req EXCEPT !.pc = "await_calc", !.cpc = "read",
                                !.before = ReviewsOf(a)]]
    /\ UNCHANGED <<agents, metrics, reviews, reputationScores, nextId, now,
                   names, agentCache, apiKeys>>

\* calculateReputationScore has returned: the score is looked up and sent,
\* null when there is none
RecalculateAfter(r) ==
    LET req == reqs[r]
        score == scores[req.agentId]
    IN  /\ req.kind = "recalculate"
        /\ req.pc = "await_calc"
        /\ req.cpc = "done"
        /\ reqs' = [reqs EXCEPT ![r] =
               Respond(req, 200,
                       Some(IF IsSome(score)
                            THEN Some(RecalculateBody(Val(score)))
                            ELSE None))]
        /\ UNCHANGED <<agents, metrics, reviews, reputationScores, nextId,
                       now, names, agentCache, apiKeys>>

----------------------------------------------------------------------------
(* GET /reputation/top-agents *)

\* the `limit` query parameter: absent, 0 or a positive number
TopLimitQueries == {None, Some(0), Some(1)}

DefaultLimit == 10

\* parseInt(req.query.limit) || 10
TopLimit(q) == IF q = None \/ Val(q) = 0 THEN DefaultLimit ELSE Val(q)

\* where: { reputationScore: { isNot: null } }
Scored == {a \in agents : IsSome(scores[a])}

\* mutant: orderBy overallScore 'asc'
getTopAgentsByReputation_Ascending(limit) ==
    LET n == Cardinality(Scored)
        ranked == {s \in [1..n -> Scored] :
                      \A i \in 1..n, j \in 1..n :
                          i < j => /\ s[i] # s[j]
                                   /\ RLe(Val(scores[s[i]]).overallScore,
                                          Val(scores[s[j]]).overallScore)}
    IN  {SubSeq(s, 1, IF limit < n THEN limit ELSE n) : s \in ranked}

\* the lists findMany may return: the scored agents by overallScore
\* descending, agents of equal score in either order, cut at `take: limit`
getTopAgentsByReputation(limit) ==
    LET n == Cardinality(Scored)
        ranked == {s \in [1..n -> Scored] :
                      \A i \in 1..n, j \in 1..n :
                          i < j => /\ s[i] # s[j]
                                   /\ RLe(Val(scores[s[j]]).overallScore,
                                          Val(scores[s[i]]).overallScore)}
    IN  {SubSeq(s, 1, IF limit < n THEN limit ELSE n) : s \in ranked}

\* one entry of the `agents` member of the response
TopAgentBody(a, score) ==
    [id |-> a,
     reputationScore |->
         IF IsSome(score)
         THEN Some([overall |-> Val(score).overallScore,
                    performance |-> Val(score).performanceScore,
                    reliability |-> Val(score).reliabilityScore,
                    community |-> Val(score).communityScore,
                    totalReviews |-> Val(score).totalReviews])
         ELSE None]

\* the request arrives, the ranking is queried and sent
GetTopAgents(r, q) ==
    /\ Arrives(r)
    /\ \E topAgents \in getTopAgentsByReputation(TopLimit(q)) :
           reqs' = [reqs EXCEPT ![r] =
               Respond([IdleReq EXCEPT !.kind = "top"], 200,
                       Some([agents |->
                                 [i \in 1..Len(topAgents) |->
                                     TopAgentBody(topAgents[i],
                                                  scores[topAgents[i]])],
                             limit |-> TopLimit(q)]))]
    /\ UNCHANGED <<agents, metrics, reviews, reputationScores, nextId, now,
                   names, agentCache, apiKeys>>

----------------------------------------------------------------------------
(* POST /agents/:id/metrics *)

\* the request arrives: the body is parsed, the agent looked up
PostMetrics(r, a, body) ==
    /\ Arrives(r)
    /\ LET req == [IdleReq EXCEPT !.kind = "metrics", !.agentId = a,
                                  !.data = Some(body)]
       IN  reqs' = [reqs EXCEPT ![r] =
               IF ~MetricsUpdateSchemaOk(body) THEN Respond(req, 400, None)
               ELSE IF a \notin agents THEN Respond(req, 404, None)
               ELSE [req EXCEPT !.pc = "upsert_metrics"]]
    /\ UNCHANGED <<agents, metrics, reviews, reputationScores, nextId, now,
                   names, agentCache, apiKeys>>

\* prisma.metrics.upsert commits (it rejects on the foreign key when the
\* agent is gone); no recalculation follows
MetricsUpsert(r) ==
    LET req == reqs[r]
    IN  /\ req.kind = "metrics"
        /\ req.pc = "upsert_metrics"
        /\ IF req.agentId \in agents
           THEN /\ metrics' = [metrics EXCEPT ![req.agentId] = req.data]
                /\ reqs' = [reqs EXCEPT ![r] = Respond(req, 200, None)]
           ELSE /\ metrics' = metrics
                /\ reqs' = [reqs EXCEPT ![r] = Respond(req, 500, None)]
        /\ UNCHANGED <<agents, reviews, reputationScores, nextId, now, names,
                       agentCache, apiKeys>>

----------------------------------------------------------------------------
(* DELETE /agents/:id *)

\* the request arrives and the agent is looked up
DeleteAgent(r, a) ==
    /\ Arrives(r)
    /\ LET req == [IdleReq EXCEPT !.kind = "delete", !.agentId = a]
       IN  reqs' = [reqs EXCEPT ![r] =
               IF a \notin agents THEN Respond(req, 404, None)
               ELSE [req EXCEPT !.pc = "delete"]]
    /\ UNCHANGED <<agents, metrics, reviews, reputationScores, nextId, now,
                   names, agentCache, apiKeys>>

\* prisma.agent.delete commits, cascading to the agent's metrics, reviews
\* and reputation score (it rejects when the row is already gone), and the
\* agent's cache entry is deleted
DeleteCommit(r) ==
    LET req == reqs[r]
        a == req.agentId
    IN  /\ req.kind = "delete"
        /\ req.pc = "delete"
        /\ IF a \in agents
           THEN /\ agents' = agents \ {a}
                /\ names' = [names EXCEPT ![a] = ""]
                /\ agentCache' = [agentCache EXCEPT ![a] = None]
                /\ metrics' = [metrics EXCEPT ![a] = None]
                /\ reviews' = reviews \ ReviewsOf(a)
                /\ reputationScores' = {row \in reputationScores : row.agentId # a}
                /\ reqs' = [reqs EXCEPT ![r] = Respond(req, 204, None)]
           ELSE /\ reqs' = [reqs EXCEPT ![r] = Respond(req, 500, None)]
                /\ UNCHANGED <<agents, metrics, reviews, reputationScores,
                               names, agentCache>>
        /\ UNCHANGED <<nextId, now, apiKeys>>

----------------------------------------------------------------------------
(* GET /agents/:id and PUT /agents/:id, with the in-process agentCache *)

\* request bodies of PUT /agents/:id: the name sent (the other fields of a
\* profile are left out)
PutBodies == {[name |-> "n2"], [name |-> ""]}

\* AgentProfileSchema.parse succeeds: name is z.string().min(1)
AgentProfileSchemaOk(body) == body.name # ""

\* the profile GET builds from the agent row and its metrics
Profile(a) == [id |-> a, name |-> names[a], metrics |-> metrics[a]]

\* the request arrives: answered from agentCache on a hit, else the agent
\* is looked up
GetAgent(r, a) ==
    /\ Arrives(r)
    /\ LET req == [IdleReq EXCEPT !.kind = "get", !.agentId = a]
           cached == agentCache[a]
       IN  reqs' = [reqs EXCEPT ![r] =
               IF IsSome(cached) THEN Respond(req, 200, cached)
               ELSE [req EXCEPT !.pc = "find"]]
    /\ UNCHANGED <<agents, names, metrics, reviews, reputationScores,
                   agentCache, nextId, now, apiKeys>>

\* the findUnique reads the agent at the database
GetAgentFind(r) ==
    LET req == reqs[r]
        a == req.agentId
    IN  /\ req.kind = "get"
        /\ req.pc = "find"
        /\ reqs' = [reqs EXCEPT ![r] =
               IF a \in agents
               THEN [req EXCEPT !.pc = "cache", !.data = Some(Profile(a))]
               ELSE Respond(req, 404, None)]
        /\ UNCHANGED <<agents, names, metrics, reviews, reputationScores,
                       agentCache, nextId, now, apiKeys>>

\* the handler resumes with the agent it read: the profile is put into
\* agentCache and sent
GetAgentRespond(r) ==
    LET req == reqs[r]
    IN  /\ req.kind = "get"
        /\ req.pc = "cache"
        /\ agentCache' = [agentCache EXCEPT ![req.agentId] = req.data]
        /\ reqs' = [reqs EXCEPT ![r] = Respond(req, 200, req.data)]
        /\ UNCHANGED <<agents, names, metrics, reviews, reputationScores,
                       nextId, now, apiKeys>>

\* Cache.get finds the entry expired (60 s after it was set)
CacheExpire(a) ==
    /\ IsSome(agentCache[a])
    /\ agentCache' = [agentCache EXCEPT ![a] = None]
    /\ UNCHANGED <<agents, names, metrics, reviews, reputationScores, reqs,
                   nextId, now, apiKeys>>

\* the request arrives: the body is parsed, the agent looked up
PutAgent(r, a, body) ==
    /\ Arrives(r)
    /\ LET req == [IdleReq EXCEPT !.kind = "put", !.agentId = a,
                                  !.data = Some(body)]
       IN  reqs' = [reqs EXCEPT ![r] =
               IF ~AgentProfileSchemaOk(body) THEN Respond(req, 400, None)
               ELSE IF a \notin agents THEN Respond(req, 404, None)
               ELSE [req EXCEPT !.pc = "update"]]
    /\ UNCHANGED <<agents, names, metrics, reviews, reputationScores,
                   agentCache, nextId, now, apiKeys>>

\* prisma.agent.update commits (it rejects when the row is gone)
PutUpdate(r) ==
    LET req == reqs[r]
        a == req.agentId
    IN  /\ req.kind = "put"
        /\ req.pc = "update"
        /\ IF a \in agents
           THEN /\ names' = [names EXCEPT ![a] = Val(req.data).name]
                /\ reqs' = [reqs EXCEPT ![r].pc = "invalidate"]
           ELSE /\ names' = names
                /\ reqs' = [reqs EXCEPT ![r] = Respond(req, 500, None)]
        /\ UNCHANGED <<agents, metrics, reviews, reputationScores, agentCache,
                       nextId, now, apiKeys>>

\* the handler resumes: agentCache.delete, then the answer
PutInvalidate(r) ==
    LET req == reqs[r]
    IN  /\ req.kind = "put"
        /\ req.pc = "invalidate"
        /\ agentCache' = [agentCache EXCEPT ![req.agentId] = None]
        /\ reqs' = [reqs EXCEPT ![r] = Respond(req, 200, None)]
        /\ UNCHANGED <<agents, names, metrics, reviews, reputationScores,
                       nextId, now, apiKeys>>

----------------------------------------------------------------------------
(* POST /admin/api-keys, POST /admin/api-keys/:id/revoke and the API-key   *)
(* authentication middleware                                               *)

\* what generateApiKey can return: `aip_` and 32 random bytes
GeneratedKeys == {"aip_1", "aip_2"}

\* crypto.createHash('sha256').update(key).digest('hex'): a digest is no
\* generated key, and different keys have different digests
hashApiKey(key) ==
    CASE key = "aip_1" -> "6b86b273"
      [] key = "aip_2" -> "d4735e3a"
      [] OTHER -> "e3b0c442"

\* request bodies of POST /admin/api-keys: the name, and the expiry if any
CreateKeyBodies ==
    {[name |-> "ci", expiresAt |-> None],
     [name |-> "ci", expiresAt |-> Some(2)],
     [name |-> "", expiresAt |-> None]}

\* CreateApiKeySchema.parse succeeds: name is z.string().min(1)
CreateApiKeySchemaOk(body) == body.name # ""

\* the keys the server has handed out in its answers
IssuedKeys ==
    {Val(reqs[q].result).key :
        q \in {q \in Reqs : reqs[q].kind = "createKey" /\ reqs[q].status = 201}}

\* Authorization headers: none, or a scheme with a generated key, the
\* digest of one, or a made-up key
AuthHeaders ==
    {None} \cup
    {Some([scheme |-> sch, value |-> v]) :
        sch \in {"Bearer", "Basic"},
        v \in GeneratedKeys \cup {hashApiKey(k) : k \in GeneratedKeys}
                \cup {"aip_made_up"}}

\* a client can send a generated key only once the server has issued it
Sendable(header) ==
    (IsSome(header) /\ Val(header).value \in GeneratedKeys) =>
        Val(header).value \in IssuedKeys

\* extractApiKey: the key of a "Bearer <key>" or "ApiKey <key>" header
extractApiKey(header) ==
    IF IsSome(header) /\ Val(header).scheme \in {"Bearer", "ApiKey"}
    THEN Some(Val(header).value)
    ELSE None

\* the request arrives, a key is generated, its row is created with the
\* digest in `key`, and the generated key is sent
CreateApiKey(r, body, key) ==
    /\ Arrives(r)
    /\ key \notin IssuedKeys
    /\ LET req == [IdleReq EXCEPT !.kind = "createKey", !.data = Some(body)]
           apiKey == [id |-> r, key |-> hashApiKey(key), name |-> body.name,
                      isActive |-> TRUE, expiresAt |-> body.expiresAt]
       IN  IF CreateApiKeySchemaOk(body)
           THEN /\ apiKeys' = apiKeys \cup {apiKey}
                /\ reqs' = [reqs EXCEPT ![r] =
                       Respond(req, 201, Some([id |-> apiKey.id, key |-> key]))]
           ELSE /\ apiKeys' = apiKeys
                /\ reqs' = [reqs EXCEPT ![r] = Respond(req, 400, None)]
    /\ UNCHANGED <<agents, names, metrics, reviews, reputationScores,
                   agentCache, nextId, now>>

\* POST /admin/api-keys/:id/revoke: the row is looked up and set inactive
RevokeApiKey(r, id) ==
    /\ Arrives(r)
    /\ LET req == [IdleReq EXCEPT !.kind = "revokeKey"]
       IN  IF \E row \in apiKeys : row.id = id
           THEN /\ apiKeys' = {IF row.id = id
                                THEN [row EXCEPT !.isActive = FALSE]
                                ELSE row : row \in apiKeys}
                /\ reqs' = [reqs EXCEPT ![r] = Respond(req, 200, None)]
           ELSE /\ apiKeys' = apiKeys
                /\ reqs' = [reqs EXCEPT ![r] = Respond(req, 404, None)]
    /\ UNCHANGED <<agents, names, metrics, reviews, reputationScores,
                   agentCache, nextId, now>>

\* authenticateApiKey: 200 stands for next() with req.apiKey attached, 401
\* for UnauthorizedError (the update of lastUsedAt is not awaited and
\* nothing reads it)
Authenticate(r, header) ==
    /\ Arrives(r)
    /\ Sendable(header)
    /\ LET req == [IdleReq EXCEPT !.kind = "auth", !.data = Some(header)]
           keyValue == extractApiKey(header)
           found == IF IsSome(keyValue)
                    THEN {row \in apiKeys : row.key = Val(keyValue)}
                    ELSE {}
       IN  reqs' = [reqs EXCEPT ![r] =
               IF keyValue = None \/ found = {} THEN Respond(req, 401, None)
               ELSE LET apiKey == CHOOSE row \in found : TRUE
                    IN  IF ~apiKey.isActive THEN Respond(req, 401, None)
                        ELSE IF IsSome(apiKey.expiresAt)
                                /\ now > Val(apiKey.expiresAt)
                        THEN Respond(req, 401, None)
                        ELSE Respond(req, 200,
                                     Some([id |-> apiKey.id,
                                           name |-> apiKey.name]))]
    /\ UNCHANGED <<agents, names, metrics, reviews, reputationScores,
                   agentCache, apiKeys, nextId, now>>

\* time passes
Tick ==
    /\ now < MaxNow
    /\ now' = now + 1
    /\ UNCHANGED <<agents, names, metrics, reviews, reputationScores,
                   agentCache, apiKeys, reqs, nextId>>

----------------------------------------------------------------------------
(* The server: any request may arrive while others are in flight *)

Next ==
    \/ \E r \in Reqs, a \in AgentIds, body \in ReviewBodies : PostReview(r, a, body)
    \/ \E r \in Reqs : ReviewCreate(r)
    \/ \E r \in Reqs, a \in AgentIds : GetScore(r, a)
    \/ \E r \in Reqs : GetScoreAfter(r)
    \/ \E r \in Reqs, a \in AgentIds : PostRecalculate(r, a)
    \/ \E r \in Reqs : RecalculateAfter(r)
    \/ \E r \in Reqs, q \in TopLimitQueries : GetTopAgents(r, q)
    \/ \E r \in Reqs, a \in AgentIds, body \in MetricsBodies : PostMetrics(r, a, body)
    \/ \E r \in Reqs : MetricsUpsert(r)
    \/ \E r \in Reqs, a \in AgentIds : DeleteAgent(r, a)
    \/ \E r \in Reqs : DeleteCommit(r)
    \/ \E r \in Reqs : CalcRead(r)
    \/ \E r \in Reqs : CalcReadFault(r)
    \/ \E r \in Reqs : CalcUpsert(r)
    \/ \E r \in Reqs : CalcUpsertFault(r)

Spec == Init /\ [][Next]_vars

----------------------------------------------------------------------------
(* The agent routes: profiles are read through agentCache while they are   *)
(* updated and deleted                                                     *)

NextCache ==
    \/ \E r \in Reqs, a \in AgentIds : GetAgent(r, a)
    \/ \E r \in Reqs : GetAgentFind(r)
    \/ \E r \in Reqs : GetAgentRespond(r)
    \/ \E a \in AgentIds : CacheExpire(a)
    \/ \E r \in Reqs, a \in AgentIds, body \in PutBodies : PutAgent(r, a, body)
    \/ \E r \in Reqs : PutUpdate(r)
    \/ \E r \in Reqs : PutInvalidate(r)
    \/ \E r \in Reqs, a \in AgentIds : DeleteAgent(r, a)
    \/ \E r \in Reqs : DeleteCommit(r)

SpecCache == Init /\ [][NextCache]_vars

----------------------------------------------------------------------------
(* API keys: created, revoked and presented, while time passes *)

NextKeys ==
    \/ \E r \in Reqs, body \in CreateKeyBodies, key \in GeneratedKeys :
           CreateApiKey(r, body, key)
    \/ \E r \in Reqs, id \in Reqs : RevokeApiKey(r, id)
    \/ \E r \in Reqs, header \in AuthHeaders : Authenticate(r, header)
    \/ Tick

SpecKeys == Init /\ [][NextKeys]_vars

----------------------------------------------------------------------------
(* The server some way into its life: agent a1 has two reviews, A and B.   *)
(* The recalculation dispatched for A read the agent before B was created  *)
(* and has not yet upserted; the one dispatched for B has completed and    *)
(* its tuple is stored. Agent a2 has no data and may have been queried.    *)

LiveReviewA == [id |-> 1, agentId |-> "a1", rating |-> "POSITIVE"]

LiveReviewB(rating) == [id |-> 2, agentId |-> "a1", rating |-> rating]

\* the row of an agent without metrics and stored score
LiveRow(revs) == [metrics |-> None, reviews |-> revs, reputationScore |-> None]

\* the submission of A: answered 201, its recalculation waiting on the upsert
LiveReqA ==
    [IdleReq EXCEPT !.kind = "review", !.agentId = "a1",
                    !.review = Some([rating |-> "POSITIVE", commentLen |-> 0]),
                    !.pc = "done", !.status = 201,
                    !.result = Some(LiveReviewA),
                    !.cpc = "upsert",
                    !.loc = Some(CalcLocals(LiveRow({LiveReviewA}), 1))]

InitLive ==
    /\ agents = AgentIds
    /\ names = [a \in AgentIds |-> InitialName]
    /\ agentCache = [a \in AgentIds |-> None]
    /\ apiKeys = {}
    /\ metrics = [a \in AgentIds |-> None]
    /\ \E rating \in Ratings, queried \in BOOLEAN :
           /\ reviews = {LiveReviewA, LiveReviewB(rating)}
           /\ now = IF queried THEN 4 ELSE 3
           /\ reputationScores =
                  {ScoreRow("a1", ScoreTuple(
                       LiveRow({LiveReviewA, LiveReviewB(rating)}), 2))}
                  \cup (IF queried
                        THEN {ScoreRow("a2", ScoreTuple(LiveRow({}), 3))}
                        ELSE {})
    /\ reqs = [r \in Reqs |-> IF r = 1 THEN LiveReqA ELSE IdleReq]
    /\ nextId = 3

SpecLive == InitLive /\ [][Next]_vars

----------------------------------------------------------------------------
(* The calculator on its whole input domain: agent a1 starts with any      *)
(* metrics snapshot and any review set, and score queries and explicit     *)
(* recalculations run one after the other, without faults                  *)

OptRates == {None, Some(Zero), Some(Half), Some(One)}

OptResponseTimes ==
    {None} \cup {Some(Num(t)) :
                    t \in {0, 300, 500, 1000, 2000, 2001, 3500, 5000, 6000}}

InitSnapshots ==
    {None} \cup {Some(Snapshot(sr, up, t)) :
                    sr \in OptRates, up \in OptRates, t \in OptResponseTimes}

\* p POSITIVE, u NEUTRAL and n NEGATIVE reviews of agent a
InitReviews(a, p, u, n) ==
    {[id |-> i, agentId |-> a,
      rating |-> IF i <= p THEN "POSITIVE"
                 ELSE IF i <= p + u THEN "NEUTRAL" ELSE "NEGATIVE"] :
        i \in 1..(p + u + n)}

InitCalc ==
    /\ agents = {"a1"}
    /\ names = [a \in AgentIds |-> IF a = "a1" THEN InitialName ELSE ""]
    /\ agentCache = [a \in AgentIds |-> None]
    /\ apiKeys = {}
    /\ \E m \in InitSnapshots :
           metrics = [a \in AgentIds |-> IF a = "a1" THEN m ELSE None]
    /\ \E p \in 0..MaxInitReviews, u \in 0..MaxInitReviews, n \in 0..MaxInitReviews :
           /\ p + u + n <= MaxInitReviews
           /\ reviews = InitReviews("a1", p, u, n)
           /\ nextId = p + u + n + 1
    /\ reputationScores = {}
    /\ reqs = [r \in Reqs |-> IdleReq]
    /\ now = 1

\* no request is in flight
Quiet == \A q \in Reqs : reqs[q].pc \in {"idle", "done"}

NextCalc ==
    \/ \E r \in Reqs, a \in agents : Quiet /\ GetScore(r, a)
    \/ \E r \in Reqs : GetScoreAfter(r)
    \/ \E r \in Reqs, a \in agents : Quiet /\ PostRecalculate(r, a)
    \/ \E r \in Reqs : RecalculateAfter(r)
    \/ \E r \in Reqs : CalcRead(r)
    \/ \E r \in Reqs : CalcUpsert(r)

SpecCalc == InitCalc /\ [][NextCalc]_vars

----------------------------------------------------------------------------
(* recalculateAllReputationScores: the periodic recalculation of every     *)
(* agent, one awaited run of calculateReputationScore after the other      *)

\* the orders in which findMany, which has no orderBy, can list the agents
Listings(ids) ==
    {l \in [1..Cardinality(ids) -> ids] :
        \A i, j \in 1..Cardinality(ids) : l[i] = l[j] => i = j}

\* the promise of calculateReputationScore rejects: never, its catch block
\* logs every error and returns
CalcRejects(cres) == FALSE

\* what the loop holds: the agents listed, the position in the list, the
\* two counters, and the outcome each awaited run logged
BatchLocals(listed) ==
    [listed |-> listed, i |-> 1, success |-> 0, failed |-> 0, runs |-> <<>>]

\* the return value { success, failed }
BatchResult(b) == [success |-> b.success, failed |-> b.failed]

\* the function is called
RecalculateAll(r) ==
    /\ Arrives(r)
    /\ reqs' = [reqs EXCEPT ![r] =
           [IdleReq EXCEPT !.kind = "recalculateAll", !.pc = "list"]]
    /\ UNCHANGED <<agents, names, metrics, reviews, reputationScores,
                   agentCache, apiKeys, nextId, now>>

\* prisma.agent.findMany resolves: the loop starts on the first agent, or
\* the function returns at once when there is none
BatchList(r) ==
    LET req == reqs[r]
    IN  /\ req.kind = "recalculateAll"
        /\ req.pc = "list"
        /\ \E listed \in Listings(agents) :
               LET b == BatchLocals(listed)
               IN  reqs' = [reqs EXCEPT ![r] =
                       IF Len(listed) = 0
                       THEN [Respond(req, 200, Some(BatchResult(b)))
                                EXCEPT !.data = Some(b)]
                       ELSE [req EXCEPT !.pc = "loop", !.data = Some(b),
                                        !.agentId = listed[1],
                                        !.cpc = "read"]]
        /\ UNCHANGED <<agents, names, metrics, reviews, reputationScores,
                       agentCache, apiKeys, nextId, now>>

\* prisma.agent.findMany rejects: so does the function
BatchListFault(r) ==
    /\ reqs[r].kind = "recalculateAll"
    /\ reqs[r].pc = "list"
    /\ reqs' = [reqs EXCEPT ![r] = Respond(reqs[r], 500, None)]
    /\ UNCHANGED <<agents, names, metrics, reviews, reputationScores,
                   agentCache, apiKeys, nextId, now>>

\* the awaited run has settled: one counter is incremented and the loop
\* goes on to the next agent, or the function returns the counters
BatchNext(r) ==
    LET req == reqs[r]
        b == Val(req.data)
        rejected == CalcRejects(req.cres)
        c == [b EXCEPT !.i = b.i + 1,
                       !.success = IF rejected THEN b.success
                                   ELSE b.success + 1,
                       !.failed = IF rejected THEN b.failed + 1
                                  ELSE b.failed,
                       !.runs = Append(b.runs, req.cres)]
    IN  /\ req.kind = "recalculateAll"
        /\ req.pc = "loop"
        /\ req.cpc = "done"
        /\ reqs' = [reqs EXCEPT ![r] =
               IF c.i > Len(c.listed)
               THEN [Respond(req, 200, Some(BatchResult(c)))
                        EXCEPT !.data = Some(c)]
               ELSE [req EXCEPT !.data = Some(c),
                                !.agentId = c.listed[c.i],
                                !.cpc = "read", !.cres = "none",
                                !.loc = None]]
        /\ UNCHANGED <<agents, names, metrics, reviews, reputationScores,
                       agentCache, apiKeys, nextId, now>>

NextBatch ==
    \/ \E r \in Reqs : RecalculateAll(r)
    \/ \E r \in Reqs : BatchList(r)
    \/ \E r \in Reqs : BatchListFault(r)
    \/ \E r \in Reqs : BatchNext(r)
    \/ \E r \in Reqs : CalcRead(r)
    \/ \E r \in Reqs : CalcReadFault(r)
    \/ \E r \in Reqs : CalcUpsert(r)
    \/ \E r \in Reqs : CalcUpsertFault(r)
    \/ \E r \in Reqs, a \in AgentIds : DeleteAgent(r, a)
    \/ \E r \in Reqs : DeleteCommit(r)

SpecBatch == Init /\ [][NextBatch]_vars

----------------------------------------------------------------------------
(* The calculator on large review sets: agent a1 has no metrics row and    *)
(* starts with up to MaxManyReviews reviews                                *)

InitReviewSets ==
    /\ agents = {"a1"}
    /\ names = [a \in AgentIds |-> IF a = "a1" THEN InitialName ELSE ""]
    /\ agentCache = [a \in AgentIds |-> None]
    /\ apiKeys = {}
    /\ metrics = [a \in AgentIds |-> None]
    /\ \E p \in 0..MaxManyReviews, u \in 0..MaxManyReviews, n \in 0..MaxManyReviews :
           /\ p + u + n <= MaxManyReviews
           /\ reviews = InitReviews("a1", p, u, n)
           /\ nextId = p + u + n + 1
    /\ reputationScores = {}
    /\ reqs = [r \in Reqs |-> IdleReq]
    /\ now = 1

SpecReviews == InitReviewSets /\ [][NextCalc]_vars

----------------------------------------------------------------------------
(* Properties *)

\* the runs of calculateReputationScore that have read their agent
Computed == {r \in Reqs : IsSome(reqs[r].loc)}

\* the metrics snapshot run r read (None when the agent has none)
ReadMetrics(r) == Val(reqs[r].loc).agent.metrics

\* a score record without its lastCalculatedAt
Components(score) ==
    <<score.overallScore, score.performanceScore, score.reliabilityScore,
      score.communityScore, score.totalReviews, score.positiveReviews,
      score.neutralReviews, score.negativeReviews>>

\* C1: every stored ReputationScore record has overallScore,
\* performanceScore, reliabilityScore and communityScore within [0,1],
\* whatever valid metrics snapshot and review set it was computed from.
C1_ScoresInUnitInterval ==
    \A a \in AgentIds :
        IsSome(scores[a]) =>
            /\ InUnit(Val(scores[a]).overallScore)
            /\ InUnit(Val(scores[a]).performanceScore)
            /\ InUnit(Val(scores[a]).reliabilityScore)
            /\ InUnit(Val(scores[a]).communityScore)

\* a score stored from a snapshot beyond the 5000 ms floor of the latency
\* term, with nothing else to lift the performance score
C1_Witness ==
    \E r \in Reqs :
        /\ reqs[r].cres = "ok"
        /\ IsSome(ReadMetrics(r))
        /\ Val(ReadMetrics(r)).avgResponseTimeMs = Some(Num(6000))
        /\ Val(ReadMetrics(r)).successRate = Some(Zero)
        /\ Val(scores[reqs[r].agentId]).performanceScore = Zero

\* C2: once the recalculations of two review submissions for the same
\* existing agent have both completed, the stored totalReviews counts both
\* reviews (no other request addresses that agent).
C2_BothReviewsCounted ==
    \A r1 \in Reqs, r2 \in Reqs :
        LET a == reqs[r1].agentId
        IN  ( /\ r1 < r2
              /\ reqs[r1].kind = "review" /\ reqs[r2].kind = "review"
              /\ reqs[r2].agentId = a
              /\ reqs[r1].cres = "ok" /\ reqs[r2].cres = "ok"
              /\ a \in agents
              /\ \A q \in Reqs \ {r1, r2} : reqs[q].agentId # a )
            => /\ IsSome(scores[a])
               /\ Val(scores[a]).totalReviews = Cardinality(ReviewsOf(a))

\* C3: a score query or explicit recalculation whose calculation faulted
\* never answers with success, nor with Not Found for an agent that exists.
C3_SyncFaultPropagates ==
    \A r \in Reqs :
        ( /\ reqs[r].kind \in {"score", "recalculate"}
          /\ reqs[r].pc = "done"
          /\ reqs[r].cres = "fault" )
        => /\ reqs[r].status # 200
           /\ reqs[r].status = 404 => reqs[r].agentId \notin agents

\* C4: a review submission with valid input for an agent that exists has
\* been answered 201 and its review is in the store, in every state of the
\* recalculation it dispatched, a faulted one included.
C4_ReviewIndependentOfRecalculation ==
    \A r \in Reqs :
        ( /\ reqs[r].kind = "review"
          /\ reqs[r].pc = "done"
          /\ CreateReviewSchemaOk(Val(reqs[r].review))
          /\ reqs[r].agentId \in agents )
        => /\ reqs[r].status = 201
           /\ Val(reqs[r].result) \in reviews

\* a review submission answered 201 whose recalculation faulted
C4_Witness ==
    \E r \in Reqs :
        /\ reqs[r].kind = "review"
        /\ reqs[r].cres = "fault"
        /\ reqs[r].agentId \in agents
        /\ reqs[r].status = 201
        /\ Val(reqs[r].result) \in reviews

\* C5: for every agent the stored totalReviews equals positiveReviews +
\* neutralReviews + negativeReviews.
C5_CountsSumToTotal ==
    \A a \in AgentIds :
        IsSome(scores[a]) =>
            Val(scores[a]).totalReviews =
                Val(scores[a]).positiveReviews + Val(scores[a]).neutralReviews
                    + Val(scores[a]).negativeReviews

\* a stored score that counts reviews of two different ratings, one NEUTRAL
C5_Witness ==
    \E a \in AgentIds :
        /\ IsSome(scores[a])
        /\ Val(scores[a]).totalReviews = 2
        /\ Val(scores[a]).neutralReviews = 1

\* C6: the latency term is 0.2 at avgResponseTimeMs = 500, 0.1 at 2000 and
\* 0 at 5000.
C6_LatencyBoundaries ==
    \A r \in Computed :
        IsSome(Val(reqs[r].loc).perf) =>
            LET perf == Val(Val(reqs[r].loc).perf)
            IN  /\ perf.responseTime = Num(500) =>
                       perf.responseComponent = Rat(2, 10)
                /\ perf.responseTime = Num(2000) =>
                       perf.responseComponent = Rat(1, 10)
                /\ perf.responseTime = Num(5000) =>
                       perf.responseComponent = Zero

\* C7: when the snapshot read carries an uptime30d value, 0 included, the
\* reliabilityScore computed is that value.
C7_ReliabilityIsUptime ==
    \A r \in Computed :
        ( /\ IsSome(ReadMetrics(r))
          /\ IsSome(Val(ReadMetrics(r)).uptime30d) )
        => Val(reqs[r].loc).tuple.reliabilityScore =
               Val(Val(ReadMetrics(r)).uptime30d)

\* C8: when the snapshot read carries an avgResponseTimeMs at or below 500,
\* 0 included, the latency term is the full 0.2.
C8_FastLatencyFull ==
    \A r \in Computed :
        ( /\ IsSome(ReadMetrics(r))
          /\ IsSome(Val(ReadMetrics(r)).avgResponseTimeMs)
          /\ RLe(Val(Val(ReadMetrics(r)).avgResponseTimeMs), Num(500)) )
        => Val(Val(reqs[r].loc).perf).responseComponent = Rat(2, 10)

\* C9: with no review or metrics write between them (SpecCalc has none), a
\* recalculation that overwrites a stored score leaves the four scores and
\* the four review counts as they were.
C9_RecalculationIdempotent ==
    [][\A a \in AgentIds :
           (IsSome(scores[a]) /\ IsSome(scores'[a])) =>
               Components(Val(scores'[a])) = Components(Val(scores[a]))]_vars

\* two explicit recalculations of an agent with reviews and metrics have
\* both upserted, the second refreshing lastCalculatedAt
C9_Witness ==
    /\ \A r \in {1, 2} :
           /\ reqs[r].kind = "recalculate"
           /\ reqs[r].agentId = "a1"
           /\ reqs[r].cres = "ok"
    /\ IsSome(metrics["a1"])
    /\ Cardinality(ReviewsOf("a1")) >= 2
    /\ Val(scores["a1"]).lastCalculatedAt > 1

\* C10: a score query for an existing agent with no metrics snapshot and no
\* reviews, whose calculation did not fault, is answered 200 with
\* performance = reliability = community = overall = 0.5 and zero counts.
C10_NoDataScoreQuery ==
    \A r \in Reqs :
        LET a == reqs[r].agentId
        IN  ( /\ reqs[r].kind = "score"
              /\ reqs[r].pc = "done"
              /\ a \in agents
              /\ metrics[a] = None
              /\ ReviewsOf(a) = {}
              /\ reqs[r].cres # "fault" )
            => /\ reqs[r].status = 200
               /\ LET body == Val(reqs[r].result)
                  IN  /\ body.overallScore = Half
                      /\ body.performanceScore = Half
                      /\ body.reliabilityScore = Half
                      /\ body.communityScore = Half
                      /\ body.totalReviews = 0
                      /\ body.breakdown =
                             [positive |-> 0, neutral |-> 0, negative |-> 0]

\* such a query, answered after its own lazy calculation
C10_Witness ==
    \E r \in Reqs :
        /\ reqs[r].kind = "score"
        /\ reqs[r].pc = "done"
        /\ reqs[r].cres = "ok"
        /\ reqs[r].agentId \in agents
        /\ metrics[reqs[r].agentId] = None
        /\ ReviewsOf(reqs[r].agentId) = {}
        /\ reqs[r].status = 200

\* the normalized review score of a score record, from its own counts:
\* ((positive - negative) / total + 1) / 2
Normalized(score) ==
    RDiv(RAdd(Rat(score.positiveReviews - score.negativeReviews,
                  score.totalReviews), One), Num(2))

StrictlyBetween(x, lo, hi) ==
    \/ RLt(lo, x) /\ RLt(x, hi)
    \/ RLt(hi, x) /\ RLt(x, lo)

\* C11: a score record computed from 1 to 4 reviews has communityScore =
\* 0.5 + (normalized - 0.5) * (total / 5); when normalized is not 0.5 the
\* community score lies strictly between 0.5 and normalized, and one
\* POSITIVE review alone gives exactly 0.6.
C11_DampenedBelowFive ==
    \A r \in Computed :
        LET score == Val(reqs[r].loc).tuple
            c == score.communityScore
        IN  score.totalReviews \in 1..4 =>
                /\ c = RAdd(Half, RMul(RSub(Normalized(score), Half),
                                       Rat(score.totalReviews, 5)))
                /\ Normalized(score) # Half =>
                       StrictlyBetween(c, Half, Normalized(score))
                /\ (score.totalReviews = 1 /\ score.positiveReviews = 1) =>
                       c = Rat(3, 5)

\* a stored score computed from one POSITIVE review has community 0.6
C11_Witness ==
    /\ IsSome(scores["a1"])
    /\ Val(scores["a1"]).totalReviews = 1
    /\ Val(scores["a1"]).positiveReviews = 1
    /\ Val(scores["a1"]).communityScore = Rat(3, 5)

\* C12: a score record computed from 5 or more reviews has communityScore =
\* ((positive - negative) / total + 1) / 2 with no dampening: 5 POSITIVE
\* reviews give 1.0, and 6 positive, 2 neutral, 2 negative give 0.7.
C12_UndampedFromFive ==
    \A r \in Computed :
        LET score == Val(reqs[r].loc).tuple
            c == score.communityScore
        IN  score.totalReviews >= 5 =>
                /\ c = Normalized(score)
                /\ (score.totalReviews = 5 /\ score.positiveReviews = 5) =>
                       c = One
                /\ (/\ score.positiveReviews = 6
                    /\ score.neutralReviews = 2
                    /\ score.negativeReviews = 2) => c = Rat(7, 10)

\* a stored score computed from 6 positive, 2 neutral and 2 negative reviews
C12_Witness ==
    /\ IsSome(scores["a1"])
    /\ Val(scores["a1"]).positiveReviews = 6
    /\ Val(scores["a1"]).neutralReviews = 2
    /\ Val(scores["a1"]).negativeReviews = 2
    /\ Val(scores["a1"]).totalReviews = 10
    /\ Val(scores["a1"]).communityScore = Rat(7, 10)

\* a rate of a snapshot, 0 when it was not reported
RateOrZero(o) == IF IsSome(o) THEN Val(o) ELSE Zero

\* C13: every computed record has overallScore = performanceScore * 0.4 +
\* reliabilityScore * 0.3 + communityScore * 0.3, unclamped; with a metrics
\* snapshot performanceScore = min(1, successRate * 0.5 + uptime30d * 0.3 +
\* latency term); successRate 1, uptime30d 1, 300 ms and no reviews give
\* performance 1, reliability 1, community 0.5 and overall 0.85.
C13_WeightedSum ==
    \A r \in Computed :
        LET loc == Val(reqs[r].loc)
            score == loc.tuple
            m == loc.agent.metrics
        IN  /\ RMul(Num(10), score.overallScore) =
                   RAdd(RAdd(RMul(Num(4), score.performanceScore),
                             RMul(Num(3), score.reliabilityScore)),
                        RMul(Num(3), score.communityScore))
            /\ IsSome(m) =>
                   score.performanceScore =
                       RMin(One,
                            RAdd(RAdd(RDiv(RateOrZero(Val(m).successRate), Num(2)),
                                      RMul(RateOrZero(Val(m).uptime30d), Rat(3, 10))),
                                 Val(loc.perf).responseComponent))
            /\ (/\ m = Some(Snapshot(Some(One), Some(One), Some(Num(300))))
                /\ score.totalReviews = 0) =>
                   /\ score.performanceScore = One
                   /\ score.reliabilityScore = One
                   /\ score.communityScore = Half
                   /\ score.overallScore = Rat(17, 20)

\* the stored score of an agent with successRate 1, uptime30d 1, 300 ms and
\* no reviews is 0.85 overall
C13_Witness ==
    /\ metrics["a1"] = Some(Snapshot(Some(One), Some(One), Some(Num(300))))
    /\ ReviewsOf("a1") = {}
    /\ IsSome(scores["a1"])
    /\ Val(scores["a1"]).overallScore = Rat(17, 20)

\* C14: a valid review submission and an explicit recalculation that arrive
\* for an agent ID that does not exist are answered 404 at once, a score
\* query answered while the agent does not exist is answered 404, and no
\* step of such a request leaves a review or a score record for that ID.
C14_NotFoundForMissingAgent ==
    [][\A r \in Reqs :
          LET req == reqs'[r]
              a == req.agentId
          IN  /\ (/\ reqs[r].kind = "idle"
                  /\ req.kind \in {"review", "recalculate"}
                  /\ req.kind = "review" => CreateReviewSchemaOk(Val(req.review))
                  /\ a \notin agents) =>
                     (req.pc = "done" /\ req.status = 404)
              /\ (/\ req.kind = "score"
                  /\ reqs[r].pc # "done"
                  /\ req.pc = "done"
                  /\ a \notin agents) => req.status = 404
              /\ (/\ req.kind \in {"review", "score", "recalculate"}
                  /\ a \notin agents) =>
                     /\ {rv \in reviews' : rv.agentId = a} = {}
                     /\ scores'[a] = None
      ]_vars

\* a score query for a deleted agent went through the calculator, which
\* found no agent, and was answered 404 with nothing stored
C14_Witness ==
    \E r \in Reqs :
        /\ reqs[r].kind = "score"
        /\ reqs[r].agentId \notin agents
        /\ reqs[r].cres = "notfound"
        /\ reqs[r].status = 404
        /\ scores[reqs[r].agentId] = None

\* C15: a score query that found no stored score for an agent that exists
\* is answered only after the recalculation: the answer is 200 and carries
\* a tuple computed for the agent by a run of the calculator, never 404,
\* and the score record is in the repository.
C15_LazyScoreSynchronous ==
    \A r \in Reqs :
        LET req == reqs[r]
            a == req.agentId
        IN  (/\ req.kind = "score"
             /\ req.cpc # "none"
             /\ req.pc = "done"
             /\ a \in agents) =>
                /\ req.status = 200
                /\ IsSome(scores[a])
                /\ \E q \in Computed :
                       /\ reqs[q].agentId = a
                       /\ req.result = Some(ScoreBody(Val(reqs[q].loc).tuple))

\* C16: an explicit recalculation of an agent that exists throughout, whose
\* own run stored its tuple, answers with scores computed from a review set
\* that holds every review that was persisted when the request arrived, also
\* when another recalculation of the agent is in flight.
C16_RecalculateReturnsFresh ==
    \A r \in Reqs :
        LET req == reqs[r]
        IN  (/\ req.kind = "recalculate"
             /\ req.pc = "done"
             /\ req.status = 200
             /\ req.cres = "ok"
             /\ req.agentId \in agents) =>
                \E q \in Computed :
                    /\ reqs[q].agentId = req.agentId
                    /\ req.before \subseteq Val(reqs[q].loc).agent.reviews
                    /\ req.result =
                           Some(Some(RecalculateBody(Val(reqs[q].loc).tuple)))

\* every handler has answered and every recalculation has returned
Settled ==
    \A q \in Reqs : reqs[q].pc \in {"idle", "done"}
                      /\ reqs[q].cpc \in {"none", "done"}

\* C17: once a metrics report was answered 200 and everything it set off
\* has finished, the agent's stored score, if it has one, reflects the
\* reported snapshot: its performance and reliability are those of the
\* metrics now stored.
C17_MetricsReportRecalculates ==
    \A r \in Reqs :
        LET req == reqs[r]
            a == req.agentId
        IN  (/\ req.kind = "metrics"
             /\ req.status = 200
             /\ Settled
             /\ a \in agents
             /\ metrics[a] = req.data
             /\ IsSome(scores[a])) =>
                /\ Val(scores[a]).performanceScore = PerformanceScore(metrics[a])
                /\ Val(scores[a]).reliabilityScore = ReliabilityScore(metrics[a])

\* C18: a recalculation writes the score only in the step in which its
\* upsert commits: the step in which it faults (at the read or at the
\* upsert), and every step before it, leave every stored score record as
\* it was, absent when it was absent.
C18_FaultWritesNothing ==
    [][\A r \in Reqs :
          (reqs'[r].cpc # reqs[r].cpc /\ reqs'[r].cres # "ok") =>
              scores' = scores
      ]_vars

\* a recalculation that had computed its tuple faulted at the upsert, and
\* the agent's stored score is not that tuple
C18_Witness ==
    \E r \in Reqs :
        /\ reqs[r].cres = "fault"
        /\ IsSome(reqs[r].loc)
        /\ reqs[r].agentId \in agents
        /\ scores[reqs[r].agentId] # Some(Val(reqs[r].loc).tuple)

\* C19: in every state in which the recalculation dispatched by a review
\* submission exists, whatever it has or has not done, the submission has
\* already been answered 201 with the persisted review; the answer never
\* waits for the recalculation to read, write or finish.
C19_ReviewAnsweredAtDispatch ==
    \A r \in Reqs :
        (reqs[r].kind = "review" /\ reqs[r].cpc # "none") =>
            /\ reqs[r].pc = "done"
            /\ reqs[r].status = 201
            /\ IsSome(reqs[r].result)

\* a submission is answered 201 and its review persisted while its
\* recalculation has neither read nor written
C19_Witness ==
    \E r \in Reqs :
        /\ reqs[r].kind = "review"
        /\ reqs[r].status = 201
        /\ Val(reqs[r].result) \in reviews
        /\ reqs[r].cpc = "read"
        /\ reqs[r].loc = None
        /\ scores[reqs[r].agentId] = None

\* C20: the answer to a top-agents query with limit >= 1 lists at most
\* limit agents, each of them an agent whose score is stored when the query
\* runs and listed with that score, in descending order of overallScore;
\* an agent without stored score is never listed.
C20_TopAgentsRanked ==
    [][\A r \in Reqs :
          (reqs[r].kind = "idle" /\ reqs'[r].kind = "top") =>
              LET res == Val(reqs'[r].result)
                  list == res.agents
              IN  res.limit >= 1 =>
                      /\ Len(list) <= res.limit
                      /\ \A i \in 1..Len(list) :
                             /\ list[i].id \in agents
                             /\ IsSome(scores[list[i].id])
                             /\ list[i] = TopAgentBody(list[i].id,
                                                       scores[list[i].id])
                      /\ \A i \in 1..Len(list), j \in 1..Len(list) :
                             i < j =>
                                 RLe(Val(list[j].reputationScore).overall,
                                     Val(list[i].reputationScore).overall)
      ]_vars

\* an answer that ranks two scored agents, the better one first
C20_Witness ==
    \E r \in Reqs :
        /\ reqs[r].kind = "top"
        /\ reqs[r].status = 200
        /\ Len(Val(reqs[r].result).agents) = 2
        /\ RLt(Val(Val(reqs[r].result).agents[2].reputationScore).overall,
               Val(Val(reqs[r].result).agents[1].reputationScore).overall)

\* the rows of reputation_scores that belong to agent a
ScoreRowsOf(a) == {row \in reputationScores : row.agentId = a}

\* C21: after every step reputation_scores holds at most one row per
\* agent, and a step that changes the row of an agent that already had one
\* is the upsert of one recalculation, after which the row carries that
\* run's score and count fields and timestamp, all of them.
C21_OneRecordOverwritten ==
    [][\A a \in AgentIds :
          /\ Cardinality(ScoreRowsOf(a)') <= 1
          /\ (/\ ScoreRowsOf(a) # {}
              /\ ScoreRowsOf(a)' # {}
              /\ ScoreRowsOf(a)' # ScoreRowsOf(a)) =>
                 \E r \in Reqs :
                     /\ reqs[r].agentId = a
                     /\ reqs[r].cpc = "upsert"
                     /\ reqs'[r].cres = "ok"
                     /\ ScoreRowsOf(a)' =
                            {ScoreRow(a, Val(reqs[r].loc).tuple)}
      ]_vars

\* an agent's only record was overwritten: it carries what a later
\* recalculation computed from more reviews than the first
C21_Witness ==
    \E a \in AgentIds, r \in Reqs, q \in Reqs :
        /\ r # q
        /\ reqs[r].agentId = a /\ reqs[q].agentId = a
        /\ reqs[r].cres = "ok" /\ reqs[q].cres = "ok"
        /\ Val(reqs[r].loc).tuple.totalReviews = 0
        /\ Val(reqs[q].loc).tuple.totalReviews = 1
        /\ ScoreRowsOf(a) = {ScoreRow(a, Val(reqs[q].loc).tuple)}

\* C22: a step of a recalculation for agent a leaves the reviews and metrics
\* of every agent and the score rows of every other agent as they were;
\* what it computes is the calculator's result on a's own metrics and a's
\* own reviews, and what it writes is a's row.
C22_NoCrossAgentCoupling ==
    [][\A r \in Reqs :
          LET a == reqs[r].agentId
          IN  (reqs[r].cpc \in {"read", "upsert"} /\ reqs'[r].cpc # reqs[r].cpc) =>
                  /\ reviews' = reviews
                  /\ metrics' = metrics
                  /\ \A b \in AgentIds \ {a} : ScoreRowsOf(b)' = ScoreRowsOf(b)
                  /\ (reqs[r].loc = None /\ IsSome(reqs'[r].loc)) =>
                         Val(reqs'[r].loc).tuple =
                             ScoreTuple([metrics |-> metrics[a],
                                         reviews |-> {rv \in reviews : rv.agentId = a},
                                         reputationScore |-> scores[a]], now)
                  /\ ScoreRowsOf(a)' # ScoreRowsOf(a) =>
                         ScoreRowsOf(a)' = {ScoreRow(a, Val(reqs[r].loc).tuple)}
      ]_vars

\* a recalculation for one agent stored a score counting no review while
\* another agent has a review and no score
C22_Witness ==
    \E r \in Reqs, q \in Reqs :
        /\ reqs[q].kind = "review"
        /\ reqs[q].status = 201
        /\ reqs[r].agentId # reqs[q].agentId
        /\ reqs[r].cres = "ok"
        /\ Val(reqs[r].loc).tuple.totalReviews = 0
        /\ scores[reqs[r].agentId] = Some(Val(reqs[r].loc).tuple)
        /\ ReviewsOf(reqs[q].agentId) # {}
        /\ scores[reqs[q].agentId] = None

\* a review body with a missing or unknown rating or a comment of more than
\* 1000 characters
Malformed(body) ==
    \/ body.rating \notin {"POSITIVE", "NEUTRAL", "NEGATIVE"}
    \/ body.commentLen > 1000

\* C23: a review submission with a malformed body is answered 400 in the
\* step in which it arrives, whether or not the agent exists; that step
\* creates no review and changes no score, and the request never
\* dispatches a recalculation.
C23_MalformedReviewRejected ==
    [][\A r \in Reqs :
          (reqs'[r].kind = "review" /\ Malformed(Val(reqs'[r].review))) =>
              /\ reqs'[r].pc = "done"
              /\ reqs'[r].status = 400
              /\ reqs'[r].result = None
              /\ reqs'[r].cpc = "none"
              /\ reqs[r].kind = "idle" =>
                     /\ reviews' = reviews
                     /\ reputationScores' = reputationScores
      ]_vars

\* a submission with a comment of 1001 characters for an agent that has a
\* stored score was answered 400 and the agent has no review
C23_Witness ==
    \E r \in Reqs :
        /\ reqs[r].kind = "review"
        /\ Val(reqs[r].review) = [rating |-> "POSITIVE", commentLen |-> 1001]
        /\ reqs[r].status = 400
        /\ IsSome(scores[reqs[r].agentId])
        /\ ReviewsOf(reqs[r].agentId) = {}

\* C24: once an update or a delete of agent X has been answered, a GET of X
\* that arrives is not answered from agentCache with a profile from before
\* the write: the cache holds no entry for a deleted agent and no entry
\* whose name is not the stored one.
C24_CacheClearedByWrites ==
    \A r \in Reqs :
        LET a == reqs[r].agentId
        IN  (/\ reqs[r].kind \in {"put", "delete"}
             /\ reqs[r].status \in {200, 204}
             /\ IsSome(agentCache[a])) =>
                /\ a \in agents
                /\ Val(agentCache[a]).name = names[a]

\* the row of apiKeys created for request q
KeyRowOf(q) == {row \in apiKeys : row.id = Val(reqs[q].result).id}

\* C25: a request that presented, as Bearer key, a key that an earlier
\* POST /admin/api-keys returned, and whose key is active and unexpired,
\* was authenticated.
C25_IssuedKeyAccepted ==
    \A q \in Reqs, r \in Reqs :
        (/\ reqs[q].kind = "createKey"
         /\ reqs[q].status = 201
         /\ reqs[r].kind = "auth"
         /\ Val(reqs[r].data) =
                Some([scheme |-> "Bearer", value |-> Val(reqs[q].result).key])
         /\ \E row \in KeyRowOf(q) :
                /\ row.isActive
                /\ IsSome(row.expiresAt) => now <= Val(row.expiresAt)) =>
            reqs[r].status = 200

\* C26: the recalculation of a review submission runs only once the review
\* is persisted and answered: when it has stored its tuple, the review set
\* it read holds the review that triggered it and the totalReviews it wrote
\* counts it.
C26_TriggeringReviewCounted ==
    \A r \in Reqs :
        (reqs[r].kind = "review" /\ reqs[r].cres = "ok") =>
            /\ reqs[r].status = 201
            /\ Val(reqs[r].result) \in Val(reqs[r].loc).agent.reviews
            /\ Val(reqs[r].loc).tuple.totalReviews >= 1

\* the recalculation of an agent's first review stored totalReviews = 1
C26_Witness ==
    \E r \in Reqs :
        /\ reqs[r].kind = "review"
        /\ reqs[r].cres = "ok"
        /\ reqs[r].agentId \in agents
        /\ scores[reqs[r].agentId] = Some(Val(reqs[r].loc).tuple)
        /\ Val(reqs[r].loc).tuple.totalReviews = 1

\* run r read exactly the metrics snapshot and review set its agent has now:
\* no review or metrics write for the agent changed them while it ran
ReadIsCurrent(r) ==
    /\ ReadMetrics(r) = metrics[reqs[r].agentId]
    /\ Val(reqs[r].loc).agent.reviews = ReviewsOf(reqs[r].agentId)

\* C27: when a recalculation completes without fault and the agent's
\* metrics and reviews are still what it read, the stored score is, on
\* completion, the calculator's result on the agent's current metrics
\* snapshot and full review set, whatever record was stored before.
C27_LaterTriggerSelfCorrects ==
    [][\A r \in Reqs :
          (/\ reqs[r].cpc = "upsert"
           /\ reqs'[r].cres = "ok"
           /\ ReadIsCurrent(r)) =>
              /\ IsSome(scores'[reqs[r].agentId])
              /\ Components(Val(scores'[reqs[r].agentId])) =
                     Components(ScoreTuple(Val(AgentRow(reqs[r].agentId)),
                                           now))]_vars

\* a recalculation that found a stale record (the counts of one review
\* where the agent has two) has completed, and the stored score is the
\* result on the current data
C27_Witness ==
    \E r \in Reqs :
        /\ reqs[r].cres = "ok"
        /\ reqs[r].agentId \in agents
        /\ ReadIsCurrent(r)
        /\ IsSome(Val(reqs[r].loc).agent.reputationScore)
        /\ Val(Val(reqs[r].loc).agent.reputationScore).totalReviews
               < Cardinality(ReviewsOf(reqs[r].agentId))
        /\ Components(Val(scores[reqs[r].agentId])) =
               Components(ScoreTuple(Val(AgentRow(reqs[r].agentId)), now))

\* the latencies a snapshot can report
ReportedTimes == {Val(t) : t \in OptResponseTimes \ {None}}

\* C28: the latency term is monotonically non-increasing in
\* avgResponseTimeMs: a run that read a reported latency t1 computed a
\* latency term at least that of every higher reported latency t2, and,
\* successRate and uptime30d being equal, a performanceScore at least that
\* of the snapshot with t2.
C28_LatencyMonotone ==
    \A r \in Computed :
        ( /\ IsSome(ReadMetrics(r))
          /\ IsSome(Val(ReadMetrics(r)).avgResponseTimeMs) ) =>
            LET m == Val(ReadMetrics(r))
                perf == Val(Val(reqs[r].loc).perf)
            IN  \A t2 \in ReportedTimes :
                    RLt(Val(m.avgResponseTimeMs), t2) =>
                        LET slower == PerformanceLocals(
                                [m EXCEPT !.avgResponseTimeMs = Some(t2)])
                        IN  /\ RLe(slower.responseComponent,
                                   perf.responseComponent)
                            /\ RLe(slower.performanceScore,
                                   perf.performanceScore)

\* C29: every stored score record and every review belongs to an existing
\* agent: whatever was in flight when an agent was deleted, no score
\* record and no review remains for it.
C29_NoRowsOfDeletedAgent ==
    /\ \A row \in reputationScores : row.agentId \in agents
    /\ \A rv \in reviews : rv.agentId \in agents

\* a recalculation read the agent, the agent was deleted, and the upsert
\* of the recalculation then failed on the foreign key
C29_Witness ==
    \E r \in Reqs, q \in Reqs :
        /\ reqs[q].kind = "delete"
        /\ reqs[q].status = 204
        /\ reqs[r].agentId = reqs[q].agentId
        /\ reqs[r].agentId \notin agents
        /\ IsSome(reqs[r].loc)
        /\ Val(reqs[r].loc).tuple.totalReviews >= 1
        /\ reqs[r].cres = "fault"

\* the number of awaited runs of a batch that logged the given outcome
RunsWith(b, cres) == Cardinality({i \in 1..Len(b.runs) : b.runs[i] = cres})

\* C30: recalculateAllReputationScores attempts one recalculation per
\* agent listed at its start and returns counts that add up to that number,
\* failed being the number of runs that faulted and wrote no score and
\* success the number of runs whose score was written.
C30_BatchCounts ==
    \A r \in Reqs :
        (reqs[r].kind = "recalculateAll" /\ reqs[r].status = 200) =>
            LET b == Val(reqs[r].data)
                res == Val(reqs[r].result)
            IN  /\ Len(b.runs) = Len(b.listed)
                /\ res.success + res.failed = Len(b.listed)
                /\ res.failed = RunsWith(b, "fault")
                /\ res.success = RunsWith(b, "ok")

====
